---------------------------- MODULE Spec2Model ----------------------------
(***************************************************************************)
(* The tsi codec: the decoder of src/src/reader.rs (ReadTsi::parse), the   *)
(* older inherent decoder of src/src/lib.rs (Tsi::parse) and the encoder   *)
(* of src/src/writer.rs (WriteTsi::write).                                 *)
(*                                                                         *)
(* Text is a TLA+ string, one character per byte.  An f32 is a sign and a  *)
(* magnitude counted in units of 1/Unit (four decimal places), or NaN:     *)
(* fine enough to see the writer round to three places.  Exponent and      *)
(* infinity literals are outside the token alphabet of the inputs.         *)
(***************************************************************************)
EXTENDS Integers, Sequences, FiniteSets, TLC

(***************************************************************************)
(* Characters and strings                                                  *)
(***************************************************************************)
Ch(s, i) == SubSeq(s, i, i)

Digits == "0123456789"

IsDigit(c) == \E d \in 1..10 : Ch(Digits, d) = c

DigitVal(c) == (CHOOSE d \in 1..10 : Ch(Digits, d) = c) - 1

AllDigits(s) == \A i \in 1..Len(s) : IsDigit(Ch(s, i))

\* char::is_whitespace, on the characters the inputs use.
IsWhitespace(c) == c \in {" ", "\t", "\r", "\n"}

RECURSIVE NatOf(_)
\* The value of a string of decimal digits.
NatOf(s) == IF Len(s) = 0 THEN 0
            ELSE 10 * NatOf(SubSeq(s, 1, Len(s) - 1)) + DigitVal(Ch(s, Len(s)))

RECURSIVE NatStr(_)
\* Display of an unsigned integer: plain decimal.
NatStr(n) == IF n < 10 THEN Ch(Digits, n + 1)
             ELSE NatStr(n \div 10) \o Ch(Digits, (n % 10) + 1)

\* Display of a signed integer.
IntStr(n) == IF n < 0 THEN "-" \o NatStr(-n) ELSE NatStr(n)

\* The least element of a nonempty set of integers.
Least(S) == CHOOSE i \in S : \A j \in S : i <= j

RECURSIVE LinesFrom(_, _)
\* BufRead::lines: the pieces between "\n", each without its "\n" and
\* without a "\r" before it; a last piece with no "\n" is a line when it is
\* not empty.
LinesFrom(text, start) ==
    IF start > Len(text) THEN <<>>
    ELSE LET ends == {i \in start..Len(text) : Ch(text, i) = "\n"}
         IN  IF ends = {} THEN <<SubSeq(text, start, Len(text))>>
             ELSE LET i == Least(ends)
                      end == IF i > start /\ Ch(text, i - 1) = "\r" THEN i - 2 ELSE i - 1
                  IN  <<SubSeq(text, start, end)>> \o LinesFrom(text, i + 1)

Lines(text) == LinesFrom(text, 1)

RECURSIVE WordsFrom(_, _)
\* str::split_whitespace: the maximal runs of non-whitespace characters.
WordsFrom(line, from) ==
    LET starts == {i \in from..Len(line) : ~IsWhitespace(Ch(line, i))}
    IN  IF starts = {} THEN <<>>
        ELSE LET start == Least(starts)
                 stops == {i \in start..Len(line) : IsWhitespace(Ch(line, i))}
                 stop  == IF stops = {} THEN Len(line) + 1 ELSE Least(stops)
             IN  <<SubSeq(line, start, stop - 1)>> \o WordsFrom(line, stop)

split_whitespace(line) == WordsFrom(line, 1)

(***************************************************************************)
(* Numbers                                                                 *)
(***************************************************************************)
PRECISION == 1000

\* One unit of the fixed-point f32 is 1/Unit: one decimal place more than
\* the writer keeps.
Unit == 10 * PRECISION

FracDigits == Len(NatStr(Unit)) - 1

Num(neg, m) == [k |-> "num", neg |-> neg, m |-> m]

NaN == [k |-> "nan", neg |-> FALSE, m |-> 0]

IsNaN(f) == f.k = "nan"

\* The signed value of a number, in units.
Val(f) == IF f.neg THEN -f.m ELSE f.m

Failed == [ok |-> FALSE, val |-> 0]

Parsed(v) == [ok |-> TRUE, val |-> v]

MaxIntDigits == 9

\* <u32 as FromStr>::from_str: an optional "+", then digits; a "-" is not a
\* digit of an unsigned type.  A token of more than MaxIntDigits digits is
\* reported as the overflow error.
ParseU32(tok) ==
    LET digits == IF Len(tok) > 1 /\ Ch(tok, 1) = "+" THEN SubSeq(tok, 2, Len(tok)) ELSE tok
    IN  IF Len(digits) = 0 \/ ~AllDigits(digits) \/ Len(digits) > MaxIntDigits
        THEN Failed
        ELSE Parsed(NatOf(digits))

\* <i32 as FromStr>::from_str: an optional sign, then digits.
ParseI32(tok) ==
    LET signed == Len(tok) > 1 /\ Ch(tok, 1) \in {"+", "-"}
        digits == IF signed THEN SubSeq(tok, 2, Len(tok)) ELSE tok
    IN  IF Len(digits) = 0 \/ ~AllDigits(digits) \/ Len(digits) > MaxIntDigits
        THEN Failed
        ELSE Parsed(IF signed /\ Ch(tok, 1) = "-" THEN -NatOf(digits) ELSE NatOf(digits))

\* The position of the first "." of s, or 0.
DotPos(s) ==
    IF \E i \in 1..Len(s) : Ch(s, i) = "."
    THEN CHOOSE i \in 1..Len(s) : Ch(s, i) = "." /\ \A j \in 1..(i - 1) : Ch(s, j) # "."
    ELSE 0

RECURSIVE Pow10(_)
Pow10(n) == IF n = 0 THEN 1 ELSE 10 * Pow10(n - 1)

\* The fraction 0.<frac> in units, rounded to the nearest unit.
FracUnits(frac) ==
    LET kept == IF Len(frac) > FracDigits THEN SubSeq(frac, 1, FracDigits) ELSE frac
        up   == Len(frac) > FracDigits /\ DigitVal(Ch(frac, FracDigits + 1)) >= 5
    IN  NatOf(kept) * Pow10(FracDigits - Len(kept)) + (IF up THEN 1 ELSE 0)

\* <f32 as FromStr>::from_str: an optional sign, then "nan" in any case or
\* a decimal with at least one digit before or after an optional ".".
ParseF32(tok) ==
    LET signed == Len(tok) > 0 /\ Ch(tok, 1) \in {"+", "-"}
        neg    == signed /\ Ch(tok, 1) = "-"
        body   == IF signed THEN SubSeq(tok, 2, Len(tok)) ELSE tok
        dot    == DotPos(body)
        int    == IF dot = 0 THEN body ELSE SubSeq(body, 1, dot - 1)
        frac   == IF dot = 0 THEN "" ELSE SubSeq(body, dot + 1, Len(body))
    IN  IF body \in {"NaN", "nan", "NAN"} THEN Parsed(NaN)
        ELSE IF Len(int) + Len(frac) = 0 \/ ~AllDigits(int) \/ ~AllDigits(frac)
        THEN Failed
        ELSE Parsed(Num(neg, NatOf(int) * Unit + FracUnits(frac)))

RECURSIVE StripZeros(_)
StripZeros(s) == IF Len(s) > 0 /\ Ch(s, Len(s)) = "0"
                 THEN StripZeros(SubSeq(s, 1, Len(s) - 1))
                 ELSE s

RECURSIVE Padded(_, _)
\* The decimal digits of n, padded with zeros on the left to the width.
Padded(n, width) == IF width = 0 THEN ""
                    ELSE Padded(n \div 10, width - 1) \o Ch(Digits, (n % 10) + 1)

\* <f32 as Display>::fmt with no precision given, as in "{x}": the shortest
\* decimal that reads back as the same number, with no exponent; a whole
\* number has no "." and no fractional digits, and a negative zero keeps
\* its sign.
DisplayF32(f) ==
    IF IsNaN(f) THEN "NaN"
    ELSE LET frac == StripZeros(Padded(f.m % Unit, FracDigits))
         IN  (IF f.neg THEN "-" ELSE "")
             \o NatStr(f.m \div Unit)
             \o (IF Len(frac) = 0 THEN "" ELSE "." \o frac)

\* f32::round on a number of units: to the nearest whole number, halves
\* away from zero.
Round(units) == (units + Unit \div 2) \div Unit

\* Variant: the rounding keeps one decimal place.
round_to_tenth(v) ==
    IF IsNaN(v) THEN NaN ELSE Num(v.neg, ((v.m + Unit \div 20) \div (Unit \div 10)) * (Unit \div 10))

\* Variant: no rounding.
unrounded(v) == v

\* writer.rs: (v * PRECISION).round() / PRECISION
round_to_precision(v) ==
    IF IsNaN(v) THEN NaN
    ELSE Num(v.neg, (Round(v.m * PRECISION) * Unit) \div PRECISION)

RECURSIVE IsqrtIn(_, _, _)
\* The largest r in lo..hi with r * r <= n.
IsqrtIn(n, lo, hi) ==
    IF lo = hi THEN lo
    ELSE LET mid == lo + (hi - lo + 1) \div 2
         IN  IF mid <= n \div mid THEN IsqrtIn(n, mid, hi) ELSE IsqrtIn(n, lo, mid - 1)

\* f32::sqrt of a whole number, to the nearest whole number.
Isqrt(n) == LET r == IsqrtIn(n, 0, n)
            IN  IF n - r * r > r THEN r + 1 ELSE r

\* The magnitudes whose squares add up within 32 bits.
MaxMantissa == 2 ^ 15 - 1

RECURSIVE HypotUnits(_, _)
\* sqrt(a^2 + b^2) of two magnitudes in units; as a float does, large
\* operands are computed with their low bits dropped.
HypotUnits(a, b) ==
    IF a > MaxMantissa \/ b > MaxMantissa
    THEN 2 * HypotUnits(a \div 2, b \div 2)
    ELSE Isqrt(a * a + b * b)

\* f32::sqrt(x.powi(2) + y.powi(2))
Norm(x, y) == IF IsNaN(x) \/ IsNaN(y) THEN NaN ELSE Num(FALSE, HypotUnits(x.m, y.m))

\* norm > 0.0: false of NaN.
Positive(f) == ~IsNaN(f) /\ ~f.neg /\ f.m > 0

\* a / b in f32.  0 / 0 is NaN.  (A nonzero number over zero is infinite;
\* the only divisor here is a norm, which is zero only when both components
\* are.)
Div(a, b) ==
    IF IsNaN(a) \/ IsNaN(b) \/ b.m = 0 THEN NaN
    ELSE Num(a.neg # b.neg, (a.m * Unit + b.m \div 2) \div b.m)

(***************************************************************************)
(* Results and errors (reader.rs, TsiError and MissingItem)                *)
(***************************************************************************)
EXPECTED_VERSION == "1.1"

None == [some |-> FALSE]

Some(v) == [some |-> TRUE, v |-> v]

Ok(v) == [tag |-> "Ok", v |-> v]

Err(e) == [tag |-> "Err", e |-> e]

\* A panic of the inherent decoder of lib.rs: no value is returned.
Panic == [tag |-> "Panic"]

IsOk(r) == r.tag = "Ok"

ParseIntError == [kind |-> "ParseInt"]

ParseFloatError == [kind |-> "ParseFloat"]

\* TsiError::Missing(MissingItem::Value(s))
missing_item_value(s) == [kind |-> "Missing", item |-> "Value", what |-> s]

\* TsiError::Missing(MissingItem::Definition(s))
MissingDefinition(s) == [kind |-> "Missing", item |-> "Definition", what |-> s]

\* TsiError::Missing(MissingItem::Vertex(idx)) and its three siblings; the
\* variant is named by the record kind.
MissingLine(thing, idx) == [kind |-> "Missing", item |-> thing, idx |-> idx]

InvalidVersion(found) == [kind |-> "InvalidVersion", found |-> found]

IndexMismatch(found, expected, thing) ==
    [kind |-> "IndexMismatch", found |-> found, expected |-> expected, thing |-> thing]

UnexpectedKeyword(k) == [kind |-> "UnexpectedKeyword", keyword |-> k]

AllOk(results) == \A i \in 1..Len(results) : IsOk(results[i])

\* The first error of a sequence of results, or Ok(v) when there is none:
\* a chain of `?`.
Try(results, v) ==
    IF \E i \in 1..Len(results) : ~IsOk(results[i])
    THEN results[CHOOSE i \in 1..Len(results) :
                    ~IsOk(results[i]) /\ \A j \in 1..(i - 1) : IsOk(results[j])]
    ELSE Ok(v)

\* Variant: a missing word is parsed as the empty string.
parse_value_of_empty(words, i, desc, ty) ==
    IF i > Len(words) THEN Err(IF ty = "f32" THEN ParseFloatError ELSE ParseIntError)
    ELSE LET r == CASE ty = "u32" -> ParseU32(words[i])
                    [] ty = "i32" -> ParseI32(words[i])
                    [] ty = "f32" -> ParseF32(words[i])
         IN  IF r.ok THEN Ok(r.val)
             ELSE Err(IF ty = "f32" THEN ParseFloatError ELSE ParseIntError)

\* Option<&str>::parse_value, on the i-th word of a line: the word is
\* missing, or does not parse as the type, or gives a value.
parse_value(words, i, desc, ty) ==
    IF i > Len(words) THEN Err(missing_item_value(desc))
    ELSE LET r == CASE ty = "u32" -> ParseU32(words[i])
                    [] ty = "i32" -> ParseI32(words[i])
                    [] ty = "f32" -> ParseF32(words[i])
         IN  IF r.ok THEN Ok(r.val)
             ELSE Err(IF ty = "f32" THEN ParseFloatError ELSE ParseIntError)

\* Variant: any declared index passes.
check_index_any(thing, found, expected) == Ok(TRUE)

check_index(thing, found, expected) ==
    IF found = expected THEN Ok(TRUE) ELSE Err(IndexMismatch(found, expected, thing))

\* The index word of a record line, parsed and checked.
IndexOf(words, thing, expected_idx) ==
    LET found == parse_value(words, 1, thing \o " index", "u32")
    IN  IF IsOk(found) THEN check_index(thing, found.v, expected_idx) ELSE found

\* Variant: a domain token that is no integer gives the default as well.
parse_vertex_line_defaulting(line, expected_idx) ==
    LET words == split_whitespace(line)
        index == IndexOf(words, "vertex", expected_idx)
        x == parse_value(words, 2, "vertex x", "f32")
        y == parse_value(words, 3, "vertex y", "f32")
        z == parse_value(words, 4, "vertex z", "f32")
        domain == IF Len(words) >= 5 /\ ParseI32(words[5]).ok
                  THEN ParseI32(words[5]).val ELSE 0
    IN  IF AllOk(<<index, x, y, z>>)
        THEN Ok([position |-> <<x.v, y.v, z.v>>, domain |-> domain])
        ELSE Try(<<index, x, y, z>>, 0)

\* Variant: the domain is the last token of the line.
parse_vertex_line_domain_last(line, expected_idx) ==
    LET words == split_whitespace(line)
        index == IndexOf(words, "vertex", expected_idx)
        x == parse_value(words, 2, "vertex x", "f32")
        y == parse_value(words, 3, "vertex y", "f32")
        z == parse_value(words, 4, "vertex z", "f32")
        domain == IF Len(words) < 5 THEN Ok(0)
                  ELSE LET r == ParseI32(words[Len(words)])
                       IN  IF r.ok THEN Ok(r.val) ELSE Err(ParseIntError)
    IN  IF AllOk(<<index, x, y, z, domain>>)
        THEN Ok([position |-> <<x.v, y.v, z.v>>, domain |-> domain.v])
        ELSE Try(<<index, x, y, z, domain>>, 0)

parse_vertex_line(line, expected_idx) ==
    LET words == split_whitespace(line)
        index == IndexOf(words, "vertex", expected_idx)
        x == parse_value(words, 2, "vertex x", "f32")
        y == parse_value(words, 3, "vertex y", "f32")
        z == parse_value(words, 4, "vertex z", "f32")
        \* The domain may be absent, implying it is set to 0.
        domain == IF Len(words) < 5 THEN Ok(0)
                  ELSE LET r == ParseI32(words[5])
                       IN  IF r.ok THEN Ok(r.val) ELSE Err(ParseIntError)
    IN  IF AllOk(<<index, x, y, z, domain>>)
        THEN Ok([position |-> <<x.v, y.v, z.v>>, domain |-> domain.v])
        ELSE Try(<<index, x, y, z, domain>>, 0)

parse_triangle_line(line, expected_idx) ==
    LET words == split_whitespace(line)
        index == IndexOf(words, "triangle", expected_idx)
        a == parse_value(words, 2, "first triangle vertex index", "u32")
        b == parse_value(words, 3, "second triangle vertex index", "u32")
        c == parse_value(words, 4, "third triangle vertex index", "u32")
    IN  IF AllOk(<<index, a, b, c>>)
        THEN Ok([vertices |-> <<a.v, b.v, c.v>>])
        ELSE Try(<<index, a, b, c>>, 0)

Zero == Num(FALSE, 0)

\* reader.rs: the vector over its norm when the norm is positive, else zero.
normalize(x, y) ==
    LET norm == Norm(x, y)
    IN  IF Positive(norm) THEN <<Div(x, norm), Div(y, norm)>> ELSE <<Zero, Zero>>

\* lib.rs: the vector over its norm, whatever the norm.
normalize_unguarded(x, y) ==
    LET norm == Norm(x, y)
    IN  <<Div(x, norm), Div(y, norm)>>

\* The inclusion line of either decoder; they differ in the normalization.
InclusionLine(decoder, line, expected_idx) ==
    LET words == split_whitespace(line)
        index == IndexOf(words, "inclusion", expected_idx)
        ty == parse_value(words, 2, "inclusion type", "i32")
        vertex_index == parse_value(words, 3, "inclusion vertex index", "u32")
        x == parse_value(words, 4, "inclusion vector x", "f32")
        y == parse_value(words, 5, "inclusion vector y", "f32")
    IN  IF AllOk(<<index, ty, vertex_index, x, y>>)
        THEN Ok([ty |-> ty.v, vertex_index |-> vertex_index.v,
                 vector |-> IF decoder = "ReadTsi" THEN normalize(x.v, y.v)
                            ELSE normalize_unguarded(x.v, y.v)])
        ELSE Try(<<index, ty, vertex_index, x, y>>, 0)

parse_inclusion_line(line, expected_idx) == InclusionLine("ReadTsi", line, expected_idx)

parse_exclusion_line(line, expected_idx) ==
    LET words == split_whitespace(line)
        index == IndexOf(words, "exclusion", expected_idx)
        vertex_index == parse_value(words, 2, "exclusion vertex index", "u32")
        radius == parse_value(words, 3, "exclusion radius", "f32")
    IN  IF AllOk(<<index, vertex_index, radius>>)
        THEN Ok([vertex_index |-> vertex_index.v, radius |-> radius.v])
        ELSE Try(<<index, vertex_index, radius>>, 0)

(***************************************************************************)
(* The decoder: one call of parse, as the frame of its local variables.    *)
(* `lines` is what the line iterator has not yet given; `pc` is "loop" at  *)
(* the head of the while loop, "records" inside the for loop of section    *)
(* `thing` (at index `idx` of `n`), and "done" once the call has returned  *)
(* or panicked with `ret`.                                                 *)
(***************************************************************************)
Decoders == {"ReadTsi", "Tsi"}

Things == <<"vertex", "triangle", "inclusion", "exclusion">>

NewFrame(text) ==
    [src |-> text, lines |-> Lines(text), pc |-> "loop",
     version |-> None, dimensions |-> None,
     vertices |-> <<>>, triangles |-> <<>>, inclusions |-> <<>>, exclusions |-> <<>>,
     thing |-> "", n |-> 0, idx |-> 0, ret |-> None]

\* ReadTsi::parse returns the error; Tsi::parse of lib.rs panics where
\* ReadTsi::parse returns one.
Fail(decoder, e) == IF decoder = "ReadTsi" THEN Err(e) ELSE Panic

Return(f, r) == [f EXCEPT !.pc = "done", !.ret = Some(r)]

\* Variant: a section directive empties every section.
BeginSectionAfresh(f, thing, n) ==
    [f EXCEPT !.vertices = <<>>, !.triangles = <<>>, !.inclusions = <<>>,
              !.exclusions = <<>>, !.thing = thing, !.n = n, !.idx = 0,
              !.pc = IF n = 0 THEN "loop" ELSE "records"]

\* Variant: the records of a repeated section are added to those it has.
BeginSectionKeeping(f, thing, n) ==
    [f EXCEPT !.thing = thing, !.n = n, !.idx = 0,
              !.pc = IF n = 0 THEN "loop" ELSE "records"]

\* The section's sequence replaced by a new empty one, and its for loop
\* entered; with a count of 0 the loop body never runs.
BeginSection(f, thing, n) ==
    LET g == CASE thing = "vertex" -> [f EXCEPT !.vertices = <<>>]
               [] thing = "triangle" -> [f EXCEPT !.triangles = <<>>]
               [] thing = "inclusion" -> [f EXCEPT !.inclusions = <<>>]
               [] thing = "exclusion" -> [f EXCEPT !.exclusions = <<>>]
    IN  [g EXCEPT !.thing = thing, !.n = n, !.idx = 0,
                  !.pc = IF n = 0 THEN "loop" ELSE "records"]

\* One turn of the while loop up to the section's for loop: the next line
\* is read as a directive.
DirectiveStep(decoder, f0) ==
    LET line == Head(f0.lines)
        f == [f0 EXCEPT !.lines = Tail(f0.lines)]
        words == split_whitespace(line)
        keyword == words[1]
    IN  IF Len(words) = 0
        THEN Return(f, Fail(decoder, missing_item_value("section keyword")))
        ELSE IF keyword = "version"
        THEN IF Len(words) < 2
             THEN Return(f, Fail(decoder, missing_item_value("version tag")))
             ELSE [f EXCEPT !.version = Some(words[2])]
        ELSE IF keyword = "box"
        THEN LET x == parse_value(words, 2, "box x", "f32")
                 y == parse_value(words, 3, "box y", "f32")
                 z == parse_value(words, 4, "box z", "f32")
             IN  IF AllOk(<<x, y, z>>)
                 THEN [f EXCEPT !.dimensions = Some(<<x.v, y.v, z.v>>)]
                 ELSE Return(f, Fail(decoder, Try(<<x, y, z>>, 0).e))
        ELSE IF \E i \in 1..Len(Things) : keyword = Things[i]
        THEN LET n == parse_value(words, 2, keyword \o " count", "u32")
             IN  IF IsOk(n) THEN BeginSection(f, keyword, n.v)
                 ELSE Return(f, Fail(decoder, n.e))
        ELSE Return(f, Fail(decoder, UnexpectedKeyword(keyword)))

\* The record line of the section, by either decoder.
RecordLine(decoder, thing, line, idx) ==
    CASE thing = "vertex" -> parse_vertex_line(line, idx)
      [] thing = "triangle" -> parse_triangle_line(line, idx)
      [] thing = "inclusion" -> InclusionLine(decoder, line, idx)
      [] thing = "exclusion" -> parse_exclusion_line(line, idx)

Push(f, thing, item) ==
    CASE thing = "vertex" -> [f EXCEPT !.vertices = Append(@, item)]
      [] thing = "triangle" -> [f EXCEPT !.triangles = Append(@, item)]
      [] thing = "inclusion" -> [f EXCEPT !.inclusions = Append(@, item)]
      [] thing = "exclusion" -> [f EXCEPT !.exclusions = Append(@, item)]

\* Variant: a section ends at the next line that begins with a keyword.
RecordStepUntilKeyword(decoder, f0) ==
    IF Len(f0.lines) = 0
    THEN Return(f0, Fail(decoder, MissingLine(f0.thing, f0.idx)))
    ELSE IF /\ Len(split_whitespace(Head(f0.lines))) > 0
            /\ split_whitespace(Head(f0.lines))[1]
                  \in {"version", "box", "vertex", "triangle", "inclusion", "exclusion"}
    THEN DirectiveStep(decoder, f0)
    ELSE LET f == [f0 EXCEPT !.lines = Tail(f0.lines)]
             item == RecordLine(decoder, f.thing, Head(f0.lines), f.idx)
         IN  IF IsOk(item)
             THEN [Push(f, f.thing, item.v) EXCEPT
                      !.idx = f.idx + 1,
                      !.pc = IF f.idx + 1 = f.n THEN "loop" ELSE "records"]
             ELSE Return(f, Fail(decoder, item.e))

\* Variant: the missing line is named by the count the section declared.
RecordStepNamingCount(decoder, f0) ==
    IF Len(f0.lines) = 0
    THEN Return(f0, Fail(decoder, MissingLine(f0.thing, f0.n)))
    ELSE LET f == [f0 EXCEPT !.lines = Tail(f0.lines)]
             item == RecordLine(decoder, f.thing, Head(f0.lines), f.idx)
         IN  IF IsOk(item)
             THEN [Push(f, f.thing, item.v) EXCEPT
                      !.idx = f.idx + 1,
                      !.pc = IF f.idx + 1 = f.n THEN "loop" ELSE "records"]
             ELSE Return(f, Fail(decoder, item.e))

\* One turn of a section's for loop: the next line is read as record `idx`.
RecordStep(decoder, f0) ==
    IF Len(f0.lines) = 0
    THEN Return(f0, Fail(decoder, MissingLine(f0.thing, f0.idx)))
    ELSE LET f == [f0 EXCEPT !.lines = Tail(f0.lines)]
             item == RecordLine(decoder, f.thing, Head(f0.lines), f.idx)
         IN  IF IsOk(item)
             THEN [Push(f, f.thing, item.v) EXCEPT
                      !.idx = f.idx + 1,
                      !.pc = IF f.idx + 1 = f.n THEN "loop" ELSE "records"]
             ELSE Return(f, Fail(decoder, item.e))

\* Variant: any version tag passes.
EndStepAnyVersion(decoder, f) ==
    IF ~f.version.some
    THEN Return(f, Fail(decoder, MissingDefinition("version")))
    ELSE IF ~f.dimensions.some
    THEN Return(f, Fail(decoder, MissingDefinition("box")))
    ELSE Return(f, Ok([dimensions |-> f.dimensions.v, vertices |-> f.vertices,
                       triangles |-> f.triangles, inclusions |-> f.inclusions,
                       exclusions |-> f.exclusions]))

\* After the while loop: the version and the box are required.
EndStep(decoder, f) ==
    IF ~f.version.some
    THEN Return(f, Fail(decoder, MissingDefinition("version")))
    ELSE IF f.version.v # EXPECTED_VERSION
    THEN Return(f, Fail(decoder, InvalidVersion(f.version.v)))
    ELSE IF ~f.dimensions.some
    THEN Return(f, Fail(decoder, MissingDefinition("box")))
    ELSE Return(f, Ok([dimensions |-> f.dimensions.v, vertices |-> f.vertices,
                       triangles |-> f.triangles, inclusions |-> f.inclusions,
                       exclusions |-> f.exclusions]))

\* The step the call takes from frame f.
Step(decoder, f) ==
    CASE f.pc = "records" -> RecordStep(decoder, f)
      [] f.pc = "loop" /\ Len(f.lines) > 0 -> DirectiveStep(decoder, f)
      [] f.pc = "loop" /\ Len(f.lines) = 0 -> EndStep(decoder, f)

RECURSIVE Run(_, _)
Run(decoder, f) == IF f.pc = "done" THEN f ELSE Run(decoder, Step(decoder, f))

\* What a call of parse on the text returns.
parse(decoder, text) == Run(decoder, NewFrame(text)).ret.v

(***************************************************************************)
(* The encoder (writer.rs, WriteTsi::write)                                *)
(***************************************************************************)
\* Variant: the sign of the number is not written.
ShownUnsigned(v) ==
    IF IsNaN(v) THEN DisplayF32(v) ELSE DisplayF32(round_to_precision(Num(FALSE, v.m)))

Shown(v) == DisplayF32(round_to_precision(v))

\* Variant: the domain of the vertex is not written.
VertexRecordWithoutDomain(i, vertex) ==
    NatStr(i) \o " " \o Shown(vertex.position[1]) \o " " \o Shown(vertex.position[2])
    \o " " \o Shown(vertex.position[3])

VertexRecord(i, vertex) ==
    NatStr(i) \o " " \o Shown(vertex.position[1]) \o " " \o Shown(vertex.position[2])
    \o " " \o Shown(vertex.position[3]) \o " " \o IntStr(vertex.domain)

TriangleRecord(i, triangle) ==
    NatStr(i) \o " " \o NatStr(triangle.vertices[1]) \o " " \o NatStr(triangle.vertices[2])
    \o " " \o NatStr(triangle.vertices[3])

InclusionRecord(i, inclusion) ==
    NatStr(i) \o " " \o IntStr(inclusion.ty) \o " " \o NatStr(inclusion.vertex_index)
    \o " " \o Shown(inclusion.vector[1]) \o " " \o Shown(inclusion.vector[2])

ExclusionRecord(i, exclusion) ==
    NatStr(i) \o " " \o NatStr(exclusion.vertex_index) \o " " \o Shown(exclusion.radius)

\* The record line of item i of a section.
RecordOf(thing, i, item) ==
    CASE thing = "vertex" -> VertexRecord(i, item)
      [] thing = "triangle" -> TriangleRecord(i, item)
      [] thing = "inclusion" -> InclusionRecord(i, item)
      [] thing = "exclusion" -> ExclusionRecord(i, item)

RECURSIVE EnumeratedFromOne(_, _, _)
\* Variant: the records are numbered from 1.
EnumeratedFromOne(thing, items, i) ==
    IF i > Len(items) THEN ""
    ELSE RecordOf(thing, i, items[i]) \o "\n" \o EnumeratedFromOne(thing, items, i + 1)

RECURSIVE Enumerated(_, _, _)
\* The record lines of a section from the i-th item on:
\* items.iter().enumerate(), one writeln! each.
Enumerated(thing, items, i) ==
    IF i > Len(items) THEN ""
    ELSE RecordOf(thing, i - 1, items[i]) \o "\n" \o Enumerated(thing, items, i + 1)

\* The text written to the sink.
write(tsi) ==
    "version 1.1\n"
    \o "box " \o Shown(tsi.dimensions[1]) \o " " \o Shown(tsi.dimensions[2])
       \o " " \o Shown(tsi.dimensions[3]) \o "\n"
    \o "vertex " \o NatStr(Len(tsi.vertices)) \o "\n"
    \o Enumerated("vertex", tsi.vertices, 1)
    \o "triangle " \o NatStr(Len(tsi.triangles)) \o "\n"
    \o Enumerated("triangle", tsi.triangles, 1)
    \o "inclusion " \o NatStr(Len(tsi.inclusions)) \o "\n"
    \o Enumerated("inclusion", tsi.inclusions, 1)
    \o "exclusion " \o NatStr(Len(tsi.exclusions)) \o "\n"
    \o Enumerated("exclusion", tsi.exclusions, 1)

(***************************************************************************)
(* The inputs.  A text is six blocks, one per directive keyword, each      *)
(* drawn from the keyword's list: the first entry is the well-formed       *)
(* block, the others deviate from it.  At most MaxDeviations blocks of a   *)
(* text deviate, and the blocks come in one of the Orders.                 *)
(***************************************************************************)
MaxDeviations == 1

VersionBlocks ==
    << "version 1.1\n",
       "version 2.0\n",
       "",
       "version\n",
       "version 1.1 x\n" >>

BoxBlocks ==
    << "box 50 50 50\n",
       "box 50.000 50.000 50.000\n",
       "box 50.12 50.123 50.1235\n",
       "",
       "box 50 50\n",
       "box 5x 50 50\n",
       "box NaN 50 50\n" >>

VertexBlocks ==
    << "vertex 2\n0 21.4 33.8 32.7 0\n1 38.1 26.1 32.3 0\n",
       "vertex 2\n0 21.400 33.800 32.700 0\n1 38.100 26.100 32.300 0\n",
       "",
       "vertex 0\n",
       "vertex 1\n0 1 2 3\n",
       "vertex 1\n0 1.5 -2.25 0.0005 -7\n",
       "vertex 1\n0 1 2 3 x\n",
       "vertex 1\n5 21.4 33.8 32.7 0\n",
       "vertex 2\n0 1 2 3 0\n2 1 2 3 0\n",
       "vertex 2\n0 1 2 3 0\n" >>

TriangleBlocks ==
    << "triangle 1\n0 0 1 2\n",
       "triangle 0\n",
       "",
       "triangle 1\n1 0 1 2\n",
       "triangle 2\n0 0 1 2\n",
       "triangle 1\n0 1 0 2 1\n" >>

InclusionBlocks ==
    << "inclusion 1\n0 1 2 0 1\n",
       "inclusion 0\n",
       "",
       "inclusion 2\n0 1 2 3 4\n1 -2 0 0 0\n",
       "inclusion 1\n0 1 2 0.5 -0.5\n",
       "inclusion 1\n0 1 2 0.600 0.800\n",
       "inclusion 1\n0 -1 2 0.6 -0.8\n",
       "inclusion 1\n3 1 2 0 1\n",
       "inclusion 2\n0 1 2 0 1\n" >>

ExclusionBlocks ==
    << "exclusion 1\n0 0 5\n",
       "exclusion 0\n",
       "",
       "exclusion 1\n0 3 2.5005\n",
       "exclusion 1\n0 0 5.000\n",
       "exclusion 1\n1 0 5\n",
       "exclusion 2\n0 0 5\n",
       "exclusion 0" >>

Blocks ==
    << VersionBlocks, BoxBlocks, VertexBlocks, TriangleBlocks, InclusionBlocks,
       ExclusionBlocks >>

Keywords == 1..Len(Blocks)

\* The choices of one block per keyword with at most MaxDeviations
\* deviating blocks.
Picks ==
    UNION { { [k \in Keywords |-> IF k \in D THEN c[k] ELSE 1] :
              c \in { c \in [D -> 2..10] : \A k \in D : c[k] <= Len(Blocks[k]) } }
          : D \in { D \in SUBSET Keywords : Cardinality(D) <= MaxDeviations } }

\* The order the encoder writes, each section in turn moved to the end of
\* the stream, and the front matter after the sections.
Orders ==
    { <<1, 2, 3, 4, 5, 6>>, <<1, 2, 4, 5, 6, 3>>, <<1, 2, 3, 5, 6, 4>>,
      <<1, 2, 3, 4, 6, 5>>, <<3, 4, 5, 6, 2, 1>> }

Text(pick, order) ==
    Blocks[order[1]][pick[order[1]]] \o Blocks[order[2]][pick[order[2]]]
    \o Blocks[order[3]][pick[order[3]]] \o Blocks[order[4]][pick[order[4]]]
    \o Blocks[order[5]][pick[order[5]]] \o Blocks[order[6]][pick[order[6]]]

\* The end-to-end example of the format's description (every number with
\* three fractional digits), the same with every section filled, and
\* VALID_TSI of the tests of reader.rs.
Examples ==
    { "version 1.1\nbox 50.000 50.000 50.000\n"
      \o "vertex 2\n0 21.400 33.800 32.700 0\n1 38.100 26.100 32.300 0\n"
      \o "triangle 0\ninclusion 0\nexclusion 0\n",
      "version 1.1\nbox 50.000 50.000 50.125\n"
      \o "vertex 1\n0 21.400 -33.800 0.001 -7\n"
      \o "triangle 1\n0 0 1 2\n"
      \o "inclusion 1\n0 1 2 0.000 1.000\n"
      \o "exclusion 1\n0 0 5.000\n",
      "version 1.1\nbox 50.0 50.0 50.0\n"
      \o "vertex 3\n0 21.4 33.8 32.7 0\n1 38.1 26.1 32.3 0\n2 40.9 24.2 19.9 0\n"
      \o "triangle 1\n0 1 0 2 1\n"
      \o "inclusion 1\n0 1 2 0 1" }

Inputs == { Text(pick, order) : pick \in Picks, order \in Orders } \cup Examples

(***************************************************************************)
(* The meshes a caller constructs directly: the type checks nothing, so a  *)
(* vector need not be a unit vector and a number need not be one.          *)
(***************************************************************************)
MaxItems == 1

Dec(m) == Num(FALSE, m)

Neg(m) == Num(TRUE, m)

DimensionChoices ==
    { <<Dec(500000), Dec(500000), Dec(500000)>>,
      <<Dec(501200), Dec(501230), Dec(501235)>>,
      <<Dec(10004), Dec(9995), Dec(123456)>> }

VertexItems ==
    << [position |-> <<Dec(214000), Dec(338000), Dec(327000)>>, domain |-> 0],
       [position |-> <<Dec(15000), Neg(22500), Dec(5)>>, domain |-> -7],
       [position |-> <<Neg(4), Dec(381000), Dec(10005)>>, domain |-> 3] >>

TriangleItems ==
    << [vertices |-> <<0, 1, 2>>], [vertices |-> <<2, 0, 1>>], [vertices |-> <<1, 1, 1>>] >>

InclusionItems ==
    { [ty |-> 1, vertex_index |-> 2, vector |-> <<Dec(0), Dec(10000)>>],
      [ty |-> -2, vertex_index |-> 0, vector |-> <<Dec(7071), Neg(7071)>>],
      [ty |-> 0, vertex_index |-> 1, vector |-> <<Dec(0), Dec(0)>>],
      [ty |-> 1, vertex_index |-> 2, vector |-> <<Dec(30000), Dec(40000)>>] }

ExclusionItems ==
    << [vertex_index |-> 0, radius |-> Dec(50000)],
       [vertex_index |-> 3, radius |-> Dec(25005)],
       [vertex_index |-> 1, radius |-> Dec(4)] >>

Min(a, b) == IF a < b THEN a ELSE b

\* The first items of a list, up to MaxItems of them.
Prefixes(items) == { SubSeq(items, 1, n) : n \in 0..Min(MaxItems, Len(items)) }

\* The sequences of at most MaxItems members of a set.
SeqsUpTo(S) == UNION { [1..n -> S] : n \in 0..MaxItems }

Meshes ==
    [dimensions : DimensionChoices, vertices : Prefixes(VertexItems),
     triangles : Prefixes(TriangleItems), inclusions : SeqsUpTo(InclusionItems),
     exclusions : Prefixes(ExclusionItems)]

(***************************************************************************)
(* The state: a caller holds either a text or a mesh it constructed.  It   *)
(* calls parse (of one of the two decoders) on the text, writes the mesh   *)
(* a call returned or the one it constructed, and calls parse on what was  *)
(* written, as examples/read_and_write.rs and the tests of writer.rs do.   *)
(***************************************************************************)
VARIABLES
    decoder,    \* which parse the caller calls
    origin,     \* "text" or "mesh": what the caller started with
    input,      \* the text it started with
    calls,      \* the calls of parse begun so far
    frame,      \* the call of parse in progress, or the last one
    mesh,       \* the mesh handed to write, once there is one
    output      \* the text write has written, once it has

vars == <<decoder, origin, input, calls, frame, mesh, output>>

Idle == [NewFrame("") EXCEPT !.pc = "idle"]

InitText ==
    /\ origin = "text"
    /\ input \in Inputs
    /\ mesh = None

InitMesh ==
    /\ origin = "mesh"
    /\ input = ""
    /\ mesh \in { Some(m) : m \in Meshes }

Init ==
    /\ decoder \in Decoders
    /\ InitText \/ InitMesh
    /\ calls = 0
    /\ frame = Idle
    /\ output = None

\* The calls of parse the caller makes before it writes.
CallsBefore == IF origin = "text" THEN 1 ELSE 0

\* The caller calls parse: on its text, or on what was written.
Parse ==
    /\ frame.pc \in {"idle", "done"}
    /\ calls = IF output.some THEN CallsBefore ELSE CallsBefore - 1
    /\ frame' = NewFrame(IF output.some THEN output.v ELSE input)
    /\ calls' = calls + 1
    /\ UNCHANGED <<decoder, origin, input, mesh, output>>

ReadDirective ==
    /\ frame.pc = "loop"
    /\ Len(frame.lines) > 0
    /\ frame' = DirectiveStep(decoder, frame)
    /\ UNCHANGED <<decoder, origin, input, calls, mesh, output>>

ReadRecord ==
    /\ frame.pc = "records"
    /\ frame' = RecordStep(decoder, frame)
    /\ UNCHANGED <<decoder, origin, input, calls, mesh, output>>

EndOfStream ==
    /\ frame.pc = "loop"
    /\ Len(frame.lines) = 0
    /\ frame' = EndStep(decoder, frame)
    /\ UNCHANGED <<decoder, origin, input, calls, mesh, output>>

\* The caller writes the mesh it constructed, or the one parse returned.
Write ==
    /\ ~output.some
    /\ calls = CallsBefore
    /\ IF origin = "text"
       THEN /\ frame.pc = "done"
            /\ IsOk(frame.ret.v)
            /\ mesh' = Some(frame.ret.v.v)
       ELSE mesh' = mesh
    /\ output' = Some(write(mesh'.v))
    /\ UNCHANGED <<decoder, origin, input, calls, frame>>

Next == Parse \/ ReadDirective \/ ReadRecord \/ EndOfStream \/ Write

Spec == Init /\ [][Next]_vars

(***************************************************************************)
(* Comparing meshes                                                        *)
(***************************************************************************)
\* 0.001, in units.
Tolerance == Unit \div PRECISION

Abs(i) == IF i < 0 THEN -i ELSE i

\* Two f32 within 0.001 of each other; NaN is within no distance of anything.
Close(a, b) == ~IsNaN(a) /\ ~IsNaN(b) /\ Abs(Val(a) - Val(b)) <= Tolerance

AllClose(a, b) == Len(a) = Len(b) /\ \A i \in 1..Len(a) : Close(a[i], b[i])

\* Same lengths and order, equal integer fields, floating-point fields within
\* the tolerance.
MeshClose(a, b) ==
    /\ AllClose(a.dimensions, b.dimensions)
    /\ Len(a.vertices) = Len(b.vertices)
    /\ \A i \in 1..Len(a.vertices) :
          /\ AllClose(a.vertices[i].position, b.vertices[i].position)
          /\ a.vertices[i].domain = b.vertices[i].domain
    /\ a.triangles = b.triangles
    /\ Len(a.inclusions) = Len(b.inclusions)
    /\ \A i \in 1..Len(a.inclusions) :
          /\ a.inclusions[i].ty = b.inclusions[i].ty
          /\ a.inclusions[i].vertex_index = b.inclusions[i].vertex_index
          /\ AllClose(a.inclusions[i].vector, b.inclusions[i].vector)
    /\ Len(a.exclusions) = Len(b.exclusions)
    /\ \A i \in 1..Len(a.exclusions) :
          /\ a.exclusions[i].vertex_index = b.exclusions[i].vertex_index
          /\ Close(a.exclusions[i].radius, b.exclusions[i].radius)

\* Every floating-point field of a mesh, in the order of the fields.
RECURSIVE Flat(_)
Flat(seqs) == IF Len(seqs) = 0 THEN <<>> ELSE Head(seqs) \o Flat(Tail(seqs))

Floats(m) ==
    m.dimensions
    \o Flat([i \in 1..Len(m.vertices) |-> m.vertices[i].position])
    \o Flat([i \in 1..Len(m.inclusions) |-> m.inclusions[i].vector])
    \o [i \in 1..Len(m.exclusions) |-> m.exclusions[i].radius]

Finite(m) == \A i \in 1..Len(Floats(m)) : ~IsNaN(Floats(m)[i])

\* Every floating-point field is a number of magnitude below 1000, where an
\* f32 still resolves the fourth decimal place.
Moderate(m) == Finite(m) /\ \A i \in 1..Len(Floats(m)) : Floats(m)[i].m < PRECISION * Unit

\* Slack of the fixed-point norm, in units.
NormSlack == Tolerance \div 5

IsZeroVector(v) == ~IsNaN(v[1]) /\ ~IsNaN(v[2]) /\ v[1].m = 0 /\ v[2].m = 0

IsUnitVector(v) ==
    /\ ~IsNaN(v[1]) /\ ~IsNaN(v[2])
    /\ Abs(HypotUnits(v[1].m, v[2].m) - Unit) <= NormSlack

UnitOrZero(v) == IsUnitVector(v) \/ IsZeroVector(v)

Normalized(m) == \A i \in 1..Len(m.inclusions) : UnitOrZero(m.inclusions[i].vector)

\* The caller has written a mesh and the call of parse on what was written
\* has returned.
RoundTripDone == output.some /\ calls = CallsBefore + 1 /\ frame.pc = "done"

Recovered == frame.ret.v

\* The caller has written a mesh and has not yet called parse on the output.
Written == output.some /\ calls = CallsBefore

C2_AcceptedTextIsStable ==
    (RoundTripDone /\ origin = "text" /\ decoder = "ReadTsi")
        => (IsOk(Recovered) /\ MeshClose(mesh.v, Recovered.v))

(***************************************************************************)
(* C2, amended: the same of every accepted text whose decoded mesh holds   *)
(* only numbers of magnitude below 1000 (the float parser accepts the      *)
(* token NaN, and NaN is within no distance of anything).                  *)
(***************************************************************************)
C2_AcceptedModerateTextIsStable ==
    (RoundTripDone /\ origin = "text" /\ decoder = "ReadTsi" /\ Moderate(mesh.v))
        => (IsOk(Recovered) /\ MeshClose(mesh.v, Recovered.v))

\* An accepted text whose inclusion vector (0.5, -0.5) was normalized,
\* rounded on writing and normalized again has gone round.
C2_Witness ==
    /\ RoundTripDone /\ origin = "text" /\ decoder = "ReadTsi" /\ Moderate(mesh.v)
    /\ Len(mesh.v.inclusions) > 0
    /\ mesh.v.inclusions[1].vector[1].m \notin {0, Unit}
    /\ mesh.v.inclusions[1].vector[1] # round_to_precision(mesh.v.inclusions[1].vector[1])
    /\ IsOk(Recovered)

(***************************************************************************)
(* The layout of a text in the encoder's order, for a mesh with the given  *)
(* section lengths: where its directive lines are and which words of which *)
(* lines are floating-point and integer fields.  A cell is <<line, word>>. *)
(***************************************************************************)
VertexAt(m) == 3

TriangleAt(m) == 4 + Len(m.vertices)

InclusionAt(m) == 5 + Len(m.vertices) + Len(m.triangles)

ExclusionAt(m) == 6 + Len(m.vertices) + Len(m.triangles) + Len(m.inclusions)

LineCount(m) == ExclusionAt(m) + Len(m.exclusions)

FloatCells(m) ==
    { <<2, c>> : c \in 2..4 }
    \cup { <<VertexAt(m) + i, c>> : i \in 1..Len(m.vertices), c \in 2..4 }
    \cup { <<InclusionAt(m) + i, c>> : i \in 1..Len(m.inclusions), c \in 4..5 }
    \cup { <<ExclusionAt(m) + i, 3>> : i \in 1..Len(m.exclusions) }

IntCells(m) ==
    { <<k, 2>> : k \in {VertexAt(m), TriangleAt(m), InclusionAt(m), ExclusionAt(m)} }
    \cup { <<VertexAt(m) + i, c>> : i \in 1..Len(m.vertices), c \in {1, 5} }
    \cup { <<TriangleAt(m) + i, c>> : i \in 1..Len(m.triangles), c \in 1..4 }
    \cup { <<InclusionAt(m) + i, c>> : i \in 1..Len(m.inclusions), c \in 1..3 }
    \cup { <<ExclusionAt(m) + i, c>> : i \in 1..Len(m.exclusions), c \in 1..2 }

\* The words a line of each kind has.
WordCount(m, k) ==
    IF k = 1 THEN 2
    ELSE IF k = 2 THEN 4
    ELSE IF k \in {VertexAt(m), TriangleAt(m), InclusionAt(m), ExclusionAt(m)} THEN 2
    ELSE IF k < TriangleAt(m) THEN 5
    ELSE IF k < InclusionAt(m) THEN 4
    ELSE IF k < ExclusionAt(m) THEN 5
    ELSE 3

\* The lines are those of the encoder's layout: the six directive lines in
\* the order version, box, vertex, triangle, inclusion, exclusion, each
\* line with the words of its kind.
InLayout(L, m) ==
    /\ Len(L) = LineCount(m)
    /\ \A k \in 1..Len(L) : Len(split_whitespace(L[k])) = WordCount(m, k)
    /\ split_whitespace(L[1])[1] = "version"
    /\ split_whitespace(L[2])[1] = "box"
    /\ \A i \in 1..Len(Things) :
          split_whitespace(
              L[<<VertexAt(m), TriangleAt(m), InclusionAt(m), ExclusionAt(m)>>[i]])[1]
          = Things[i]

Cell(L, cell) == split_whitespace(L[cell[1]])[cell[2]]

\* The digits after the ".", or "" when there is none.
Fraction(tok) == IF DotPos(tok) = 0 THEN "" ELSE SubSeq(tok, DotPos(tok) + 1, Len(tok))

\* The token without its fraction and ".".
Whole(tok) == IF DotPos(tok) = 0 THEN tok ELSE SubSeq(tok, 1, DotPos(tok) - 1)

Unsigned(tok) == IF Len(tok) > 0 /\ Ch(tok, 1) = "-" THEN SubSeq(tok, 2, Len(tok)) ELSE tok

\* Plain decimal: digits, after a "-" when negative.
PlainDecimal(tok) == Len(Unsigned(tok)) > 0 /\ AllDigits(Unsigned(tok))

\* Fixed-point with exactly three fractional digits, as 50.000.
ThreeFractionDigits(tok) ==
    /\ PlainDecimal(Whole(tok))
    /\ Len(Fraction(tok)) = 3 /\ AllDigits(Fraction(tok))

\* The shortest decimal of a number of at most three places: no trailing
\* zero, and no "." when the number is whole, as 50 and 50.12.
ShortDecimal(tok) ==
    /\ PlainDecimal(Whole(tok))
    /\ Len(Fraction(tok)) <= 3 /\ AllDigits(Fraction(tok))
    /\ (DotPos(tok) > 0 => Len(Fraction(tok)) > 0 /\ Ch(tok, Len(tok)) # "0")

(***************************************************************************)
(* C3.  As claimed: write emits every floating-point field in fixed-point  *)
(* notation with exactly three fractional digits (50.0 as 50.000), and     *)
(* every integer field as plain decimal.                                   *)
(***************************************************************************)
C3_ThreeFractionDigits ==
    Written =>
        LET L == Lines(output.v)
        IN  /\ InLayout(L, mesh.v)
            /\ \A c \in FloatCells(mesh.v) : ThreeFractionDigits(Cell(L, c))
            /\ \A c \in IntCells(mesh.v) : PlainDecimal(Cell(L, c))

(***************************************************************************)
(* C3, amended: write emits every floating-point field rounded to three    *)
(* places in the shortest decimal notation, so with at most three          *)
(* fractional digits, no trailing zero and no "." when whole (50.0 as 50,  *)
(* 50.1235 as 50.124; NaN as NaN), and every integer field as plain        *)
(* decimal.                                                                *)
(***************************************************************************)
C3_ShortestDecimal ==
    Written =>
        LET L == Lines(output.v)
        IN  /\ InLayout(L, mesh.v)
            /\ \A c \in FloatCells(mesh.v) :
                  Cell(L, c) = "NaN" \/ ShortDecimal(Cell(L, c))
            /\ \A c \in IntCells(mesh.v) : PlainDecimal(Cell(L, c))

\* A mesh was written whose box has a dimension that is whole to three
\* places, written with no fraction, and one that took rounding, written
\* with three digits.
C3_Witness ==
    /\ Written
    /\ \E c \in 2..4 :
          /\ mesh.v.dimensions[c - 1] # round_to_precision(mesh.v.dimensions[c - 1])
          /\ Len(Fraction(Cell(Lines(output.v), <<2, c>>))) = 3
    /\ \E c \in 2..4 :
          /\ round_to_precision(mesh.v.dimensions[c - 1]).m % Unit = 0
          /\ Fraction(Cell(Lines(output.v), <<2, c>>)) = ""

RECURSIVE Joined(_, _)
\* The strings, each followed by the terminator.
Joined(strings, terminator) ==
    IF Len(strings) = 0 THEN ""
    ELSE Head(strings) \o terminator \o Joined(Tail(strings), terminator)

\* The words of the line are separated by single spaces, with no space
\* before the first or after the last.
SingleSpaced(line) == Joined(split_whitespace(line), " ") = line \o " "

\* Digits with no leading zero, after a "-" when negative; not "-0".
NoLeadingZero(tok) ==
    /\ PlainDecimal(tok)
    /\ Ch(Unsigned(tok), 1) = "0" => tok = "0"

\* A number in the shortest decimal form, with no leading zero; not a
\* negative zero.
CanonicalFloat(tok) ==
    /\ ShortDecimal(tok)
    /\ Ch(Unsigned(tok), 1) = "0" => Unsigned(Whole(tok)) = "0"
    /\ tok # "-0"

\* The vector written on an inclusion line is of length exactly 1, or zero.
ExactUnitOrZero(xtok, ytok) ==
    LET x == ParseF32(xtok).val.m
        y == ParseF32(ytok).val.m
    IN  \/ x = 0 /\ y = 0
        \/ x <= Unit /\ y <= Unit /\ x * x + y * y = Unit * Unit

\* The canonical layout as claimed: directives in the encoder's order with
\* all four count lines, single-space separators, every float with exactly
\* three fractional digits, an explicit vertex domain.  (The sequential
\* indices are the decoder's to check.)
ClaimedCanonical(text, m) ==
    LET L == Lines(text)
    IN  /\ InLayout(L, m)
        /\ L[1] = "version 1.1"
        /\ \A k \in 1..Len(L) : SingleSpaced(L[k])
        /\ \A c \in FloatCells(m) : ThreeFractionDigits(Cell(L, c))

\* The layout the encoder reproduces: as claimed but for the numbers, which
\* are in the shortest decimal form; moreover every line ends with a single
\* "\n", no integer has a sign or zero it does not need, and every
\* inclusion vector is of length exactly 1 or zero as written.
ShortCanonical(text, m) ==
    LET L == Lines(text)
    IN  /\ InLayout(L, m)
        /\ L[1] = "version 1.1"
        /\ \A k \in 1..Len(L) : SingleSpaced(L[k])
        /\ text = Joined(L, "\n")
        /\ \A c \in FloatCells(m) : CanonicalFloat(Cell(L, c))
        /\ \A c \in IntCells(m) : NoLeadingZero(Cell(L, c))
        /\ \A i \in 1..Len(m.inclusions) :
              ExactUnitOrZero(Cell(L, <<InclusionAt(m) + i, 4>>),
                              Cell(L, <<InclusionAt(m) + i, 5>>))

(***************************************************************************)
(* C4.  As claimed: for a text in the canonical layout with every float    *)
(* written with exactly three fractional digits, write(parse(text)) is the *)
(* text, byte for byte.                                                    *)
(***************************************************************************)
C4_CanonicalTextReproduced ==
    (Written /\ origin = "text" /\ decoder = "ReadTsi"
        /\ ClaimedCanonical(input, mesh.v))
        => output.v = input

(***************************************************************************)
(* C4, amended: for a text in the canonical layout with every float in the *)
(* shortest decimal form of at most three places (50, not 50.000) and of   *)
(* magnitude below 1000, every integer plain, every line ended by one      *)
(* newline and every inclusion vector of length exactly 1 or zero,         *)
(* write(parse(text)) is the text, byte for byte.                          *)
(***************************************************************************)
C4_ShortCanonicalTextReproduced ==
    (Written /\ origin = "text" /\ decoder = "ReadTsi"
        /\ ShortCanonical(input, mesh.v) /\ Moderate(mesh.v))
        => output.v = input

\* Such a text with every section filled, a fraction among its numbers and
\* an inclusion vector off the axes was parsed and written.
C4_Witness ==
    /\ Written /\ origin = "text" /\ decoder = "ReadTsi"
    /\ ShortCanonical(input, mesh.v) /\ Moderate(mesh.v)
    /\ Len(mesh.v.vertices) > 1 /\ Len(mesh.v.triangles) > 0
    /\ Len(mesh.v.inclusions) > 0 /\ Len(mesh.v.exclusions) > 0
    /\ mesh.v.vertices[1].position[1].m % Unit # 0
    /\ mesh.v.inclusions[1].vector[1].m \notin {0, Unit}
    /\ output.v = input

(***************************************************************************)
(* The steps of a call of ReadTsi::parse, for the claims about errors      *)
(***************************************************************************)
\* The call is about to read a line as the record `frame.idx` of a section.
AtRecord == decoder = "ReadTsi" /\ frame.pc = "records" /\ Len(frame.lines) > 0

\* The words of the line the call is about to read.
NextWords == split_whitespace(Head(frame.lines))

\* The index the line declares: its first word, read as a u32.
DeclaredIndex == IF Len(NextWords) = 0 THEN Failed ELSE ParseU32(NextWords[1])

\* The records of a section a frame holds.
Section(f, thing) ==
    CASE thing = "vertex" -> f.vertices
      [] thing = "triangle" -> f.triangles
      [] thing = "inclusion" -> f.inclusions
      [] thing = "exclusion" -> f.exclusions

\* The step stores a record.
Stores == Len(Section(frame', frame.thing)) = Len(Section(frame, frame.thing)) + 1

\* The step ends the call with the result r.
Returns(r) == frame'.pc = "done" /\ frame'.ret = Some(r)

\* The line the call read last.
LastRead == Lines(frame.src)[Len(Lines(frame.src)) - Len(frame.lines)]

(***************************************************************************)
(* C5.  In every counted section the record line read at position k must   *)
(* declare index k: when it declares another index f, ReadTsi::parse       *)
(* returns the index-mismatch error with found = f, expected = k and the   *)
(* record kind, and a record is stored only when its declared index is its *)
(* position.                                                               *)
(***************************************************************************)
C5_IndexMismatch ==
    [][AtRecord =>
          /\ (DeclaredIndex.ok /\ DeclaredIndex.val # frame.idx)
                => Returns(Err(IndexMismatch(DeclaredIndex.val, frame.idx, frame.thing)))
          /\ Stores => (DeclaredIndex.ok /\ DeclaredIndex.val = frame.idx)]_vars

\* A call has returned the mismatch of the second record of a section: the
\* line declares index 2 at position 1, after a record was stored.
C5_Witness ==
    /\ decoder = "ReadTsi" /\ frame.pc = "done"
    /\ frame.ret.v = Err(IndexMismatch(2, 1, "vertex"))
    /\ Len(frame.vertices) = 1
    /\ split_whitespace(LastRead)[1] = "2"

\* Which of the lines have the keyword as their first word.
DirectiveLines(L, keyword) ==
    { k \in 1..Len(L) :
        LET words == split_whitespace(L[k])
        IN  Len(words) > 0 /\ words[1] = keyword }

Greatest(S) == CHOOSE k \in S : \A j \in S : j <= k

\* The tag of the last version line among lines that have one.
VersionTag(L) == split_whitespace(L[Greatest(DirectiveLines(L, "version"))])[2]

\* All lines have been consumed and the while loop is over.
AtEnd == decoder = "ReadTsi" /\ frame.pc = "loop" /\ Len(frame.lines) = 0

(***************************************************************************)
(* C6.  Once all lines have been consumed, ReadTsi::parse returns a mesh   *)
(* only if the text has a version line whose tag is exactly "1.1" and a    *)
(* box line; with no version line it returns the missing-definition error  *)
(* for version, with another tag the invalid-version error carrying the    *)
(* tag, and with no box line the missing-definition error for box.         *)
(***************************************************************************)
C6_EndOfStreamChecks ==
    [][AtEnd =>
          LET L == Lines(frame.src)
              versions == DirectiveLines(L, "version")
              boxes == DirectiveLines(L, "box")
          IN  /\ frame'.pc = "done"
              /\ IsOk(frame'.ret.v)
                    => (versions # {} /\ VersionTag(L) = "1.1" /\ boxes # {})
              /\ versions = {}
                    => frame'.ret.v = Err(MissingDefinition("version"))
              /\ (versions # {} /\ VersionTag(L) # "1.1")
                    => frame'.ret.v = Err(InvalidVersion(VersionTag(L)))
              /\ (versions # {} /\ VersionTag(L) = "1.1" /\ boxes = {})
                    => frame'.ret.v = Err(MissingDefinition("box"))]_vars

\* A call on a text with every section and the tag 2.0 has consumed all
\* lines and returned the invalid-version error.
C6_Witness ==
    /\ decoder = "ReadTsi" /\ frame.pc = "done" /\ Len(frame.lines) = 0
    /\ frame.ret.v = Err(InvalidVersion("2.0"))
    /\ frame.dimensions.some
    /\ Len(frame.vertices) > 0 /\ Len(frame.exclusions) > 0

\* The lines left are fewer than the records the section still expects, and
\* each is a well-formed record of the section with the index of its place.
RunsShort ==
    /\ frame.pc = "records"
    /\ Len(frame.lines) < frame.n - frame.idx
    /\ \A i \in 1..Len(frame.lines) :
          IsOk(RecordLine(decoder, frame.thing, frame.lines[i], frame.idx + i - 1))

(***************************************************************************)
(* C7.  When a section directive declares n records and only k < n lines   *)
(* remain in the stream, each a well-formed record, ReadTsi::parse returns *)
(* the missing-line error naming the section's kind and the index k of the *)
(* first record that is missing; so for each of the four kinds.            *)
(***************************************************************************)
C7_MissingLine ==
    [][(decoder = "ReadTsi" /\ RunsShort) =>
          IF Len(frame.lines) = 0
          THEN /\ Returns(Err(MissingLine(frame.thing, frame.idx)))
               /\ frame.idx = Len(Section(frame, frame.thing))
          ELSE /\ RunsShort'
               /\ frame'.idx = frame.idx + 1
               /\ frame'.thing = frame.thing /\ frame'.n = frame.n]_vars

\* A call has returned the missing-line error for the second inclusion,
\* after the one inclusion line the stream had.
C7_Witness ==
    /\ decoder = "ReadTsi" /\ frame.pc = "done"
    /\ frame.ret.v = Err(MissingLine("inclusion", 1))
    /\ frame.n = 2 /\ Len(frame.inclusions) = 1

(***************************************************************************)
(* C8.  As claimed: the vector stored for every decoded inclusion, by      *)
(* either parse, is of unit length or the zero vector, with no NaN         *)
(* component; a raw (0, 0) is stored as (0, 0).                            *)
(***************************************************************************)
C8_StoredVectorUnitOrZero ==
    \A i \in 1..Len(frame.inclusions) : UnitOrZero(frame.inclusions[i].vector)

\* The line read at the vertex record frame.idx has an index that matches
\* and three coordinates that parse.
AtVertexDomain ==
    /\ AtRecord /\ frame.thing = "vertex"
    /\ Len(NextWords) >= 4
    /\ DeclaredIndex.ok /\ DeclaredIndex.val = frame.idx
    /\ \A c \in 2..4 : ParseF32(NextWords[c]).ok

\* The vertex the step stores.
StoredVertex == frame'.vertices[Len(frame'.vertices)]

(***************************************************************************)
(* C9.  A vertex record's domain is 0 by default only when the record has  *)
(* no fifth token; a fifth token that parses as an integer is the domain,  *)
(* and with one that does not ReadTsi::parse returns the integer           *)
(* conversion error.                                                       *)
(***************************************************************************)
C9_VertexDomain ==
    [][AtVertexDomain =>
          IF Len(NextWords) = 4
          THEN Stores /\ StoredVertex.domain = 0
          ELSE IF ParseI32(NextWords[5]).ok
          THEN Stores /\ StoredVertex.domain = ParseI32(NextWords[5]).val
          ELSE Returns(Err(ParseIntError)) /\ frame'.vertices = frame.vertices]_vars

\* A call has returned the conversion error on a vertex record whose fifth
\* token is not an integer.
C9_Witness ==
    /\ decoder = "ReadTsi" /\ frame.pc = "done" /\ frame.thing = "vertex"
    /\ frame.ret.v = Err(ParseIntError)
    /\ Len(split_whitespace(LastRead)) = 5
    /\ \A c \in 2..4 : ParseF32(split_whitespace(LastRead)[c]).ok
    /\ ~ParseI32(split_whitespace(LastRead)[5]).ok

(***************************************************************************)
(* The order of the directives.  A second specification starts the caller  *)
(* with the blocks of a few texts in every order.                          *)
(***************************************************************************)
\* Every order of the six keywords.
AllOrders ==
    { o \in [Keywords -> Keywords] : \A i, j \in Keywords : o[i] = o[j] => i = j }

\* The well-formed text with every section filled, one with other numbers
\* and an empty triangle section, and one with a section left out.
OrderPicks == { <<1, 1, 1, 1, 1, 1>>, <<1, 3, 6, 2, 5, 4>>, <<1, 1, 4, 3, 2, 2>> }

InitOrder ==
    /\ decoder = "ReadTsi"
    /\ origin = "text"
    /\ input \in { Text(pick, order) : pick \in OrderPicks, order \in AllOrders }
    /\ mesh = None
    /\ calls = 0
    /\ frame = Idle
    /\ output = None

SpecOrder == InitOrder /\ [][Next]_vars

KeywordNames == <<"version", "box">> \o Things

\* Which of the lines begin a block: their first word is a keyword.
BlockStarts(L) ==
    { k \in 1..Len(L) :
        LET words == split_whitespace(L[k])
        IN  Len(words) > 0 /\ \E i \in 1..Len(KeywordNames) : words[1] = KeywordNames[i] }

\* The block of a keyword that occurs once among the lines: its directive
\* line and the lines up to the next directive line; "" when it does not
\* occur.
BlockOf(L, keyword) ==
    LET at == DirectiveLines(L, keyword)
    IN  IF at = {} THEN ""
        ELSE LET k == Least(at)
                 next == Least({ j \in BlockStarts(L) : j > k } \cup {Len(L) + 1})
             IN  Joined(SubSeq(L, k, next - 1), "\n")

\* The blocks of the text in the encoder's order.
Reordered(text) ==
    LET L == Lines(text)
    IN  BlockOf(L, "version") \o BlockOf(L, "box") \o BlockOf(L, "vertex")
        \o BlockOf(L, "triangle") \o BlockOf(L, "inclusion") \o BlockOf(L, "exclusion")

\* The text is made of blocks, and no keyword occurs twice.
KeywordsOnce(text) ==
    LET L == Lines(text)
    IN  /\ Len(L) > 0 => 1 \in BlockStarts(L)
        /\ \A i \in 1..Len(KeywordNames) :
              Cardinality(DirectiveLines(L, KeywordNames[i])) <= 1

\* The first call of parse, on the caller's text, has returned.
FirstCallDone == origin = "text" /\ calls = 1 /\ frame.pc = "done" /\ ~output.some

(***************************************************************************)
(* C10.  ReadTsi::parse does not depend on the order of the directives:    *)
(* a text in which each keyword occurs at most once is accepted exactly    *)
(* when the text of its blocks in the encoder's order is, and decodes to   *)
(* the same mesh; so all orders of the same blocks decode alike, also      *)
(* those with version and box after the record sections.                   *)
(***************************************************************************)
C10_OrderIndependent ==
    (FirstCallDone /\ decoder = "ReadTsi" /\ KeywordsOnce(input))
        => LET other == parse("ReadTsi", Reordered(input))
           IN  (IsOk(frame.ret.v) \/ IsOk(other)) => frame.ret.v = other

\* A text with every section filled, whose version and box lines come last
\* and whose sections are not in the encoder's order, was accepted.
C10_Witness ==
    /\ FirstCallDone /\ decoder = "ReadTsi" /\ KeywordsOnce(input)
    /\ IsOk(frame.ret.v)
    /\ Len(frame.vertices) > 0 /\ Len(frame.triangles) > 0
    /\ Len(frame.inclusions) > 0 /\ Len(frame.exclusions) > 0
    /\ DirectiveLines(Lines(input), "box") = {Len(Lines(input)) - 1}
    /\ DirectiveLines(Lines(input), "version") = {Len(Lines(input))}
    /\ Least(DirectiveLines(Lines(input), "exclusion"))
          < Least(DirectiveLines(Lines(input), "vertex"))
    /\ input # Reordered(input)

(***************************************************************************)
(* The lines of a text.  A third specification starts the caller with the  *)
(* well-formed text changed in one place: a line cut short, left empty,    *)
(* given more tokens or another index, a line or a block put in, a section *)
(* left out; each with the version tag 1.1 and 2.0.                        *)
(***************************************************************************)
MaxExtraTokens == 1

BaseLines ==
    << "version 1.1", "box 50 50 50",
       "vertex 2", "0 21.4 33.8 32.7 0", "1 38.1 26.1 32.3 -7",
       "triangle 1", "0 0 1 2",
       "inclusion 1", "0 1 2 3 4",
       "exclusion 1", "0 0 5" >>

\* The words with single spaces between them.
Spaced(words) ==
    IF Len(words) = 0 THEN ""
    ELSE SubSeq(Joined(words, " "), 1, Len(Joined(words, " ")) - 1)

\* The first n words of a line.
FirstWords(line, n) ==
    LET words == split_whitespace(line)
    IN  Spaced(SubSeq(words, 1, IF n < Len(words) THEN n ELSE Len(words)))

RECURSIVE Extras(_)
\* n more tokens for the end of a line.
Extras(n) == IF n = 0 THEN "" ELSE Extras(n - 1) \o (IF n % 2 = 1 THEN " 9" ELSE " x")

\* The line with its word w replaced.
WithWord(line, w, word) ==
    LET words == split_whitespace(line)
    IN  Spaced([i \in 1..Len(words) |-> IF i = w THEN word ELSE words[i]])

\* What a line is changed to: cut after each of its words, or before the
\* first; blank; with more tokens; with another first word, whole and cut;
\* with a word that is no number, whole and with another first word.
LineVariants(line) ==
    LET n == Len(split_whitespace(line))
    IN  { FirstWords(line, j) : j \in 0..(n - 1) }
        \cup { "  " }
        \cup { line \o Extras(e) : e \in 1..MaxExtraTokens }
        \cup { WithWord(line, 1, "7"), FirstWords(WithWord(line, 1, "7"), n - 1),
               WithWord(line, 2, "x"), WithWord(WithWord(line, 2, "x"), 1, "7"),
               WithWord(line, n, "x") }

\* What is put in between two lines.
InsertedBlocks ==
    { <<"">>, <<"1 38.1 26.1 32.3 0">>, <<"version 2.0">>, <<"version 1.1">>,
      <<"box 1 2 3">>, <<"vertex 1", "0 1 2 3 4">>, <<"triangle 0">>,
      <<"inclusion 1", "0 2 0 0 0">>, <<"exclusion 2", "0 1 2", "1 3 4">> }

Replaced(lines, k, line) == [i \in 1..Len(lines) |-> IF i = k THEN line ELSE lines[i]]

Inserted(lines, k, block) == SubSeq(lines, 1, k) \o block \o SubSeq(lines, k + 1, Len(lines))

\* The lines without those from first to last.
Without(lines, first, last) == SubSeq(lines, 1, first - 1) \o SubSeq(lines, last + 1, Len(lines))

LineInputs ==
    LET changed == { Replaced(BaseLines, k[1], k[2]) :
                       k \in UNION { {j} \X LineVariants(BaseLines[j]) : j \in 1..Len(BaseLines) } }
        put == { Inserted(BaseLines, k, b) : k \in 0..Len(BaseLines), b \in InsertedBlocks }
        left == { Without(BaseLines, 3, 5), Without(BaseLines, 6, 7),
                  Without(BaseLines, 8, 9), Without(BaseLines, 10, 11),
                  Without(BaseLines, 1, 1), Without(BaseLines, 2, 2), BaseLines }
        all == changed \cup put \cup left
    IN  { Joined(Replaced(lines, 1, v), "\n") :
            lines \in all, v \in {"version 2.0"} }
        \cup { Joined(lines, "\n") : lines \in all }

InitLines ==
    /\ decoder \in Decoders
    /\ origin = "text"
    /\ input \in LineInputs
    /\ mesh = None
    /\ calls = 0
    /\ frame = Idle
    /\ output = None

SpecLines == InitLines /\ [][Next]_vars

\* The first word of the line about to be read is one of the keywords.
AtKeyword(names) ==
    Len(NextWords) > 0 /\ \E i \in 1..Len(names) : NextWords[1] = names[i]

\* The count the last directive line of a keyword declares, 0 when the
\* keyword does not occur among the lines.
DeclaredCount(L, keyword) ==
    IF DirectiveLines(L, keyword) = {} THEN 0
    ELSE ParseU32(split_whitespace(L[Greatest(DirectiveLines(L, keyword))])[2]).val

\* The step leaves the records of the other sections as they are.
OthersKept(thing) ==
    \A i \in 1..Len(Things) :
        Things[i] # thing => Section(frame', Things[i]) = Section(frame, Things[i])

(***************************************************************************)
(* C11.  The extent of a section is fixed by its declared count alone.     *)
(* A section directive with count n starts the section empty, and the next *)
(* n lines are each read as a record of that kind whatever their first     *)
(* token (with n = 0 none is); the line after them is read as a directive, *)
(* and one whose first token is no keyword, as a surplus record line,      *)
(* returns the unexpected-keyword error with that token.  A mesh returned  *)
(* holds for each kind as many records as the directive declared, and none *)
(* for a keyword that does not occur.                                      *)
(***************************************************************************)
C11_SectionExtent ==
    [][(decoder = "ReadTsi" /\ frame.pc \in {"loop", "records"}) =>
          IF frame.pc = "records"
          THEN Len(frame.lines) > 0 =>
                  /\ frame'.lines = Tail(frame.lines)
                  /\ frame'.thing = frame.thing /\ frame'.n = frame.n
                  /\ OthersKept(frame.thing)
                  /\ \/ /\ Stores
                        /\ frame'.idx = frame.idx + 1
                        /\ frame'.pc = IF frame'.idx = frame.n THEN "loop" ELSE "records"
                     \/ /\ frame'.pc = "done"
                        /\ ~IsOk(frame'.ret.v)
                        /\ frame'.ret.v.e.kind # "UnexpectedKeyword"
          ELSE IF Len(frame.lines) = 0
          THEN IsOk(frame'.ret.v) =>
                  \A i \in 1..Len(Things) :
                      Len(Section(frame'.ret.v.v, Things[i]))
                        = DeclaredCount(Lines(frame.src), Things[i])
          ELSE /\ (AtKeyword(Things) /\ Len(NextWords) > 1 /\ ParseU32(NextWords[2]).ok) =>
                      /\ frame'.lines = Tail(frame.lines)
                      /\ frame'.thing = NextWords[1]
                      /\ frame'.n = ParseU32(NextWords[2]).val /\ frame'.idx = 0
                      /\ Section(frame', NextWords[1]) = <<>>
                      /\ OthersKept(NextWords[1])
                      /\ frame'.pc = IF frame'.n = 0 THEN "loop" ELSE "records"
               /\ (Len(NextWords) > 0 /\ ~AtKeyword(KeywordNames)) =>
                      Returns(Err(UnexpectedKeyword(NextWords[1])))]_vars

\* After the two vertex lines the section declared, a third was read as a
\* directive and the call returned the unexpected-keyword error with its
\* first token.
C11_Witness ==
    /\ decoder = "ReadTsi" /\ frame.pc = "done"
    /\ frame.ret.v = Err(UnexpectedKeyword("1"))
    /\ frame.thing = "vertex" /\ frame.n = 2 /\ Len(frame.vertices) = 2
    /\ LastRead = "1 38.1 26.1 32.3 0"

\* A field a line requires: the name its absence is reported with, and the
\* type its token is parsed as ("str" when it is taken as it is).
Field(name, ty) == [name |-> name, ty |-> ty]

\* The fields a record line of each kind requires, in order.
RecordFields(thing) ==
    CASE thing = "vertex" ->
           << Field("vertex index", "u32"), Field("vertex x", "f32"),
              Field("vertex y", "f32"), Field("vertex z", "f32") >>
      [] thing = "triangle" ->
           << Field("triangle index", "u32"),
              Field("first triangle vertex index", "u32"),
              Field("second triangle vertex index", "u32"),
              Field("third triangle vertex index", "u32") >>
      [] thing = "inclusion" ->
           << Field("inclusion index", "u32"), Field("inclusion type", "i32"),
              Field("inclusion vertex index", "u32"),
              Field("inclusion vector x", "f32"), Field("inclusion vector y", "f32") >>
      [] thing = "exclusion" ->
           << Field("exclusion index", "u32"), Field("exclusion vertex index", "u32"),
              Field("exclusion radius", "f32") >>

\* The fields a directive line requires, its keyword being the first.
DirectiveFields(keyword) ==
    <<Field("section keyword", "str")>> \o
    ( CASE keyword = "version" -> <<Field("version tag", "str")>>
        [] keyword = "box" ->
             <<Field("box x", "f32"), Field("box y", "f32"), Field("box z", "f32")>>
        [] OTHER -> <<Field(keyword \o " count", "u32")>> )

\* The token is one of the type.
ValidAs(tok, ty) ==
    CASE ty = "u32" -> ParseU32(tok).ok
      [] ty = "i32" -> ParseI32(tok).ok
      [] ty = "f32" -> ParseF32(tok).ok
      [] ty = "str" -> TRUE

\* The call is about to read a line whose required fields are known: a
\* record line, an empty line, or a directive line of one of the keywords.
AtKnownLine ==
    /\ decoder = "ReadTsi" /\ frame.pc \in {"loop", "records"} /\ Len(frame.lines) > 0
    /\ frame.pc = "loop" => (Len(NextWords) = 0 \/ AtKeyword(KeywordNames))

\* The fields the line about to be read requires.
NextFields ==
    IF frame.pc = "records" THEN RecordFields(frame.thing)
    ELSE IF Len(NextWords) = 0 THEN <<Field("section keyword", "str")>>
    ELSE DirectiveFields(NextWords[1])

\* The line about to be read lacks a token it requires.
Lacking == AtKnownLine /\ Len(NextWords) < Len(NextFields)

\* Every token the line has is one of the type of its field, and the index
\* of a record line is the position of the record.
PresentValid ==
    /\ \A i \in 1..Len(NextWords) :
          i <= Len(NextFields) => ValidAs(NextWords[i], NextFields[i].ty)
    /\ (frame.pc = "records" /\ Len(NextWords) > 0) => DeclaredIndex.val = frame.idx

\* The missing-value error naming the first field the line lacks.
FirstLacking == Err(missing_item_value(NextFields[Len(NextWords) + 1].name))

(***************************************************************************)
(* C12.  As claimed: any directive or record line that lacks a token it    *)
(* requires makes ReadTsi::parse return the missing-value error naming the *)
(* absent field; an empty or whitespace-only line is not skipped, and      *)
(* lacks the section keyword or the record index.                          *)
(***************************************************************************)
C12_LackingLineIsMissingValue == [][Lacking => Returns(FirstLacking)]_vars

(***************************************************************************)
(* C12, amended: a directive or record line that lacks a token it requires *)
(* and whose tokens are each valid for their field (the index that of the  *)
(* record's position) makes ReadTsi::parse return the missing-value error  *)
(* naming the first absent field; an empty or whitespace-only line is not  *)
(* skipped, and lacks the section keyword or the record index.             *)
(***************************************************************************)
C12_ValidLackingLineIsMissingValue ==
    [][(Lacking /\ PresentValid) => Returns(FirstLacking)]_vars

\* A call has returned the missing-value error for the y of an inclusion
\* vector, on an inclusion line of four valid tokens.
C12_Witness ==
    /\ decoder = "ReadTsi" /\ frame.pc = "done" /\ frame.thing = "inclusion"
    /\ frame.ret.v = Err(missing_item_value("inclusion vector y"))
    /\ Len(split_whitespace(LastRead)) = 4
    /\ \A i \in 1..4 : ValidAs(split_whitespace(LastRead)[i], RecordFields("inclusion")[i].ty)

(***************************************************************************)
(* The encoder alone: the caller constructs a mesh of up to MaxWritten     *)
(* items a section, writes it and reads back what was written.             *)
(***************************************************************************)
MaxWritten == 3

InclusionList ==
    << [ty |-> 1, vertex_index |-> 2, vector |-> <<Dec(0), Dec(10000)>>],
       [ty |-> -2, vertex_index |-> 0, vector |-> <<Dec(7071), Neg(7071)>>],
       [ty |-> 0, vertex_index |-> 1, vector |-> <<Dec(0), Dec(0)>>] >>

\* The first items of a list, up to MaxWritten of them.
Firsts(items) == { SubSeq(items, 1, n) : n \in 0..Min(MaxWritten, Len(items)) }

WrittenMeshes ==
    [dimensions : {<<Dec(500000), Dec(501230), Dec(9995)>>},
     vertices : Firsts(VertexItems), triangles : Firsts(TriangleItems),
     inclusions : Firsts(InclusionList), exclusions : Firsts(ExclusionItems)]

InitWrite ==
    /\ decoder \in Decoders
    /\ origin = "mesh"
    /\ input = ""
    /\ mesh \in { Some(m) : m \in WrittenMeshes }
    /\ calls = 0
    /\ frame = Idle
    /\ output = None

SpecWrite == InitWrite /\ [][Next]_vars

\* The number of lines of a text each of whose lines is ended by "\n",
\* and 0 if its last is not.
Newlines(text) ==
    IF Len(text) > 0 /\ Ch(text, Len(text)) # "\n" THEN 0
    ELSE Cardinality({ i \in 1..Len(text) : Ch(text, i) = "\n" })

\* The line is the count line of a section of the length.
IsCountLine(line, keyword, len) == line = keyword \o " " \o NatStr(len)

\* What of an item its record line shows after the index: the words of
\* the integer fields, from the second word or up to the last.
IntegerWords(thing, item) ==
    CASE thing = "vertex" -> <<IntStr(item.domain)>>
      [] thing = "triangle" ->
           << NatStr(item.vertices[1]), NatStr(item.vertices[2]), NatStr(item.vertices[3]) >>
      [] thing = "inclusion" -> << IntStr(item.ty), NatStr(item.vertex_index) >>
      [] thing = "exclusion" -> << NatStr(item.vertex_index) >>

\* The line is a record of the item: it shows the item's integer fields.
IsRecordOf(line, thing, item) ==
    LET words == split_whitespace(line)
        ints  == IntegerWords(thing, item)
    IN  IF thing = "vertex" THEN Len(words) = 5 /\ words[5] = ints[1]
        ELSE /\ Len(words) > Len(ints)
             /\ SubSeq(words, 2, Len(ints) + 1) = ints

\* Lines at + 0 .. at + Len(items) of L are the section of the items: the
\* count line, then a line an item in sequence order, the i-th (from 0)
\* beginning with the index i.
IsSection(L, at, thing, items) ==
    /\ IsCountLine(L[at], thing, Len(items))
    /\ \A i \in 1..Len(items) :
          /\ split_whitespace(L[at + i])[1] = NatStr(i - 1)
          /\ IsRecordOf(L[at + i], thing, items[i])

(***************************************************************************)
(* C13.  For any mesh, write emits exactly 6 + |vertices| + |triangles| +  *)
(* |inclusions| + |exclusions| lines: "version 1.1", one box line, then    *)
(* for vertex, triangle, inclusion, exclusion in that order the count line *)
(* of the section, whose number is the length of the sequence (also when   *)
(* that is 0), and one line an element in sequence order, the i-th         *)
(* beginning with the index i.                                             *)
(***************************************************************************)
C13_WrittenLayout ==
    Written =>
        LET m == mesh.v
            L == Lines(output.v)
            v == Len(m.vertices)
            t == Len(m.triangles)
            i == Len(m.inclusions)
            e == Len(m.exclusions)
        IN  /\ Newlines(output.v) = 6 + v + t + i + e
            /\ Len(L) = 6 + v + t + i + e
            /\ L[1] = "version 1.1"
            /\ Len(split_whitespace(L[2])) = 4 /\ split_whitespace(L[2])[1] = "box"
            /\ IsSection(L, 3, "vertex", m.vertices)
            /\ IsSection(L, 4 + v, "triangle", m.triangles)
            /\ IsSection(L, 5 + v + t, "inclusion", m.inclusions)
            /\ IsSection(L, 6 + v + t + i, "exclusion", m.exclusions)

\* A mesh of three vertices, no triangle, two inclusions and no exclusion
\* has been written.
C13_Witness ==
    /\ Written /\ origin = "mesh"
    /\ Len(mesh.v.vertices) = 3 /\ Len(mesh.v.triangles) = 0
    /\ Len(mesh.v.inclusions) = 2 /\ Len(mesh.v.exclusions) = 0
    /\ Newlines(output.v) = 11

(***************************************************************************)
(* The first offence of a line, by the fields it requires read from left   *)
(* to right.  A vertex line that has a fifth token has the domain as a     *)
(* fifth field.                                                            *)
(***************************************************************************)
ReadsLine == frame.pc \in {"loop", "records"} /\ Len(frame.lines) > 0

UnknownKeyword == frame.pc = "loop" /\ Len(NextWords) > 0 /\ ~AtKeyword(KeywordNames)

LineFields ==
    IF frame.pc = "records"
    THEN RecordFields(frame.thing) \o
         (IF frame.thing = "vertex" /\ Len(NextWords) >= 5
          THEN <<Field("vertex domain", "i32")>> ELSE <<>>)
    ELSE IF Len(NextWords) = 0 THEN <<Field("section keyword", "str")>>
    ELSE IF UnknownKeyword THEN <<>>
    ELSE DirectiveFields(NextWords[1])

\* Field i of the line is absent, is not of its type, or is an index other
\* than the position of the record.
Offends(i) ==
    \/ i > Len(NextWords)
    \/ ~ValidAs(NextWords[i], LineFields[i].ty)
    \/ frame.pc = "records" /\ i = 1 /\ DeclaredIndex.val # frame.idx

OffenceOf(i) ==
    IF i > Len(NextWords) THEN missing_item_value(LineFields[i].name)
    ELSE IF ~ValidAs(NextWords[i], LineFields[i].ty)
    THEN (IF LineFields[i].ty = "f32" THEN ParseFloatError ELSE ParseIntError)
    ELSE IndexMismatch(DeclaredIndex.val, frame.idx, frame.thing)

\* The error of the line about to be read, if it has one.
LineOffence ==
    LET offending == { i \in 1..Len(LineFields) : Offends(i) }
    IN  IF UnknownKeyword THEN Some(UnexpectedKeyword(NextWords[1]))
        ELSE IF offending = {} THEN None
        ELSE Some(OffenceOf(Least(offending)))

\* The lines a frame has consumed.
Consumed(f) == SubSeq(Lines(f.src), 1, Len(Lines(f.src)) - Len(f.lines))

\* The step ends the call without a mesh.
Fails == frame.pc \in {"loop", "records"} /\ frame'.pc = "done" /\ ~IsOk(frame'.ret.v)

\* The error is one of the checks made at the end of the stream.
OfEndChecks(e) ==
    e.kind = "InvalidVersion" \/ (e.kind = "Missing" /\ e.item = "Definition")

\* A step of a call of parse is fail-fast.
FailFastStep ==
    /\ ReadsLine =>
          /\ frame'.lines = Tail(frame.lines)
          /\ IF LineOffence.some THEN Returns(Err(LineOffence.v))
             ELSE frame'.pc # "done"
    /\ Fails =>
          /\ frame'.ret.v.tag = "Err"
          /\ DOMAIN frame'.ret.v = {"tag", "e"}
          /\ parse(decoder, Joined(Consumed(frame'), "\n")) = frame'.ret.v
          /\ OfEndChecks(frame'.ret.v.e) => (frame.pc = "loop" /\ Len(frame.lines) = 0)
    /\ (frame.pc = "loop" /\ Len(frame.lines) = 0 /\ ~frame.dimensions.some) =>
          /\ ~frame.version.some => Returns(Err(MissingDefinition("version")))
          /\ (frame.version.some /\ frame.version.v # EXPECTED_VERSION)
                => Returns(Err(InvalidVersion(frame.version.v)))

(***************************************************************************)
(* C14.  As claimed, of both decoders (ReadTsi::parse of reader.rs and     *)
(* Tsi::parse of lib.rs): parse is fail-fast in stream order.  A call that *)
(* fails returns an error value and no mesh, the error being that of the   *)
(* first offending line, and reads no line after it (what it returns is    *)
(* what it returns on the lines it consumed alone); the fields of a line   *)
(* are checked from left to right, an index mismatch before a missing or   *)
(* unparseable later field; the version and box checks are made only once  *)
(* every line was consumed without error, the version before the box.      *)
(***************************************************************************)
C14_FailFast == [][FailFastStep]_vars

\* The number of tokens the line about to be read is read for: those of
\* its required fields and, of a vertex line, the domain.
TokensRead ==
    Len(NextFields) + (IF frame.pc = "records" /\ frame.thing = "vertex" THEN 1 ELSE 0)

\* The frame with the line about to be read cut to its first n words.
CutTo(n) ==
    [frame EXCEPT !.lines = <<FirstWords(Head(frame.lines), n)>> \o Tail(frame.lines)]

(***************************************************************************)
(* C15.  Tokens beyond the fields a line requires are ignored: a step of   *)
(* ReadTsi::parse on a record line (past the fourth token of a triangle,   *)
(* the fifth of a vertex or inclusion, the third of an exclusion) or on a  *)
(* version, box or section directive (past the second, fourth, second      *)
(* token) leaves the call where the same line without the extra tokens     *)
(* leaves it: the same record or value stored, or the same error.          *)
(***************************************************************************)
C15_ExtraTokensIgnored ==
    [][(AtKnownLine /\ Len(NextWords) > TokensRead)
          => frame' = Step(decoder, CutTo(TokensRead))]_vars

\* A text whose triangle line has a fifth token has been accepted, with
\* the triangle of the first four.
C15_Witness ==
    /\ decoder = "ReadTsi" /\ frame.pc = "done" /\ IsOk(frame.ret.v)
    /\ \E k \in 2..Len(Lines(frame.src)) :
          /\ Lines(frame.src)[k - 1] = "triangle 1"
          /\ Lines(frame.src)[k] = "0 0 1 2 9"
    /\ frame.ret.v.v.triangles = << [vertices |-> <<0, 1, 2>>] >>

(***************************************************************************)
(* Repeated directives: the sample with one more block put at any place,   *)
(* well-formed or not, with the first line as it is or "version 2.0".      *)
(***************************************************************************)
RepeatedBlocks ==
    { <<"version 2.0">>, <<"version 1.1">>, <<"version">>,
      <<"box 1 2 3">>, <<"box 1 2">>,
      <<"vertex 1", "0 1 2 3 4">>, <<"vertex 1", "1 1 2 3">>,
      <<"vertex 3", "0 1 2 3", "1 4 5 6 2", "2 7 8 9">>,
      <<"triangle 0">>, <<"triangle 2", "0 3 4 5", "1 6 7 8">>,
      <<"inclusion 1", "0 2 0 0 0">>, <<"inclusion 1", "0 2 0 0">>,
      <<"exclusion 2", "0 1 2", "1 3 4">>, <<"exclusion 1", "0 1">> }

RepeatInputs ==
    LET put == { Inserted(BaseLines, k, b) : k \in 0..Len(BaseLines), b \in RepeatedBlocks }
    IN  { Joined(Replaced(lines, 1, "version 2.0"), "\n") : lines \in put }
        \cup { Joined(lines, "\n") : lines \in put }

InitRepeat ==
    /\ decoder \in Decoders
    /\ origin = "text"
    /\ input \in RepeatInputs
    /\ mesh = None
    /\ calls = 0
    /\ frame = Idle
    /\ output = None

SpecRepeat == InitRepeat /\ [][Next]_vars

\* The count a section directive line declares, 0 for any other line.
CountOf(line) ==
    LET words == split_whitespace(line)
    IN  IF /\ Len(words) >= 2
           /\ \E i \in 1..Len(Things) : words[1] = Things[i]
           /\ ParseU32(words[2]).ok
        THEN ParseU32(words[2]).val ELSE 0

RECURSIVE DirectivesFrom(_, _)
\* The lines from k on that are read as directives: each is followed by
\* as many record lines as it declares.
DirectivesFrom(L, k) ==
    IF k > Len(L) THEN {} ELSE {k} \cup DirectivesFrom(L, k + 1 + CountOf(L[k]))

\* The directive lines of a keyword.
Occurrences(L, keyword) == DirectiveLines(L, keyword) \cap DirectivesFrom(L, 1)

\* Some keyword has more than one directive line.
Repeats(L) ==
    \E i \in 1..Len(KeywordNames) : Cardinality(Occurrences(L, KeywordNames[i])) > 1

\* Line k belongs to a directive that is not the last of its keyword.
Superseded(L, k) ==
    LET d == Greatest({ j \in DirectivesFrom(L, 1) : j <= k })
        words == split_whitespace(L[d])
    IN  Len(words) > 0 /\ \E j \in Occurrences(L, words[1]) : j > d

RECURSIVE LastOnlyFrom(_, _)
LastOnlyFrom(L, k) ==
    IF k > Len(L) THEN <<>>
    ELSE (IF Superseded(L, k) THEN <<>> ELSE <<L[k]>>) \o LastOnlyFrom(L, k + 1)

\* The text without the directives that are not the last of their keyword,
\* and without their records.
LastOnly(text) == LET L == Lines(text) IN Joined(LastOnlyFrom(L, 1), "\n")

\* The call has returned after the loop consumed every line: with a mesh or
\* with the error of a check made at the end of the stream.
ReturnedAtEnd ==
    /\ frame.pc = "done" /\ Len(frame.lines) = 0
    /\ IsOk(frame.ret.v) \/ OfEndChecks(frame.ret.v.e)

=============================================================================
